---- MODULE Spec2Model ----
(***************************************************************************)
(* Palm payment API: the HTTP handlers of the two revisions of the server  *)
(* (src/index.js, the first, bearer-scoped revision, and                    *)
(* src/unnamed/part_000, the later one) as a state machine over the       *)
(* relational store and the in-memory enrollment-token map.                *)
(*                                                                         *)
(* Every handler is one action: a handler suspends only on its database    *)
(* round trips and the claims settled here are about whole requests.       *)
(* Time is the value of Date.now() in milliseconds.                        *)
(***************************************************************************)
EXTENDS Integers, Sequences, FiniteSets, TLC

VARIABLES
    rev,                 \* which revision of the server runs: "first" | "later"
    now,                 \* Date.now(), ms
    enrollmentTokens,    \* the Map of part_000:505, token -> entry
    timers,              \* pending setTimeout callbacks: {[token, due]}
    issued,              \* history: token -> what generate-enrollment-qr stored
    gets,                \* history: token -> statuses of its GETs after expiry
    products,            \* Product rows, in creation order
    customers,           \* Customer rows (ids)
    orders,              \* Order rows with their OrderItems, in creation order
    devices,             \* PalmDevice rows, in creation order
    deviceAuthLogs,      \* DeviceAuthenticationLog rows, in creation order
    users,               \* User rows (ids)
    cards,               \* Card rows
    palmTemplates,       \* PalmTemplate rows
    authenticationLogs,  \* AuthenticationLog rows
    polled,              \* poller -> the order its last next-order call returned
    resp                 \* the last HTTP response sent

vars == <<rev, now, enrollmentTokens, timers, issued, gets, products, customers,
          orders, devices, deviceAuthLogs, users, cards, palmTemplates,
          authenticationLogs, polled, resp>>

enrollVars == <<enrollmentTokens, timers, issued, gets>>
shopVars   == <<products, customers, orders, polled>>
deviceVars == <<devices, deviceAuthLogs>>
userVars   == <<users, cards, palmTemplates, authenticationLogs>>

(***************************************************************************)
(* Bounds                                                                  *)
(***************************************************************************)
MaxTicks    == 3     \* clock advances
MaxTokens   == 2     \* enrollment tokens generated
MaxGets     == 2     \* GETs of one token after its expiry that are recorded

None == "none"       \* JavaScript undefined / null
NoRow == 0           \* the null a lookup returns when no row matches (row ids start at 1)

(***************************************************************************)
(* Responses.  One shape for every endpoint:                               *)
(*   kind    the endpoint                                                  *)
(*   status  the HTTP status                                               *)
(*   arg     the path parameter or bearer credential of the request        *)
(*   at      Date.now() when the request was handled                       *)
(*   ids     the ids of the rows in the body (of a DELETE: of the rows it  *)
(*           removed)                                                      *)
(*   secrets the apiToken values that appear anywhere in the body          *)
(*   payload the palmFeatures in the body                                  *)
(***************************************************************************)
Response(kind, status, arg, ids, secrets, payload) ==
    [kind |-> kind, status |-> status, arg |-> arg, at |-> now,
     ids |-> ids, secrets |-> secrets, payload |-> payload]

NoResponse ==
    [kind |-> "none", status |-> 0, arg |-> <<>>, at |-> 0,
     ids |-> {}, secrets |-> {}, payload |-> None]

(***************************************************************************)
(* The clock                                                               *)
(***************************************************************************)
TTL == 10 * 60 * 1000          \* part_000:519 and :525
TickMs == TTL \div 2           \* the clock is observed every half TTL

Tick ==
    /\ now + TickMs <= MaxTicks * TickMs
    /\ now' = now + TickMs
    /\ UNCHANGED <<rev, enrollVars, shopVars, deviceVars, userVars, resp>>

(***************************************************************************)
(* Enrollment tokens (later revision only)                                 *)
(***************************************************************************)
PalmFeatures == {"fA", "fB"}
TokenIds == 1 .. MaxTokens

\* require('crypto').randomBytes(16).toString('hex'): a 128-bit value, taken
\* as never repeating; tokens are numbered in the order they are drawn.
randomBytes16 == Cardinality(DOMAIN issued) + 1

GenerateEnrollmentQr(palmFeatures) ==
    /\ rev = "later"
    /\ randomBytes16 \in TokenIds
    /\ LET enrollmentToken == randomBytes16
           entry == [palmFeatures |-> palmFeatures,
                     createdAt |-> now,
                     expiresAt |-> now + TTL]
       IN /\ enrollmentTokens' =
                [t \in DOMAIN enrollmentTokens \cup {enrollmentToken} |->
                    IF t = enrollmentToken THEN entry ELSE enrollmentTokens[t]]
          /\ timers' = timers \cup {[token |-> enrollmentToken, due |-> now + TTL]}
          /\ issued' = [t \in DOMAIN issued \cup {enrollmentToken} |->
                           IF t = enrollmentToken THEN entry ELSE issued[t]]
          /\ gets' = [t \in DOMAIN gets \cup {enrollmentToken} |->
                           IF t = enrollmentToken THEN <<>> ELSE gets[t]]
          /\ resp' = Response("generate-enrollment-qr", 200, <<enrollmentToken>>,
                              {}, {}, None)
    /\ UNCHANGED <<rev, now, shopVars, deviceVars, userVars>>

\* The setTimeout callback of part_000:523-525: runs once, no earlier than its
\* delay after it was set.
TimerFires(tm) ==
    /\ tm \in timers
    /\ now >= tm.due
    /\ timers' = timers \ {tm}
    /\ enrollmentTokens' =
          [t \in DOMAIN enrollmentTokens \ {tm.token} |-> enrollmentTokens[t]]
    /\ UNCHANGED <<rev, now, issued, gets, shopVars, deviceVars, userVars, resp>>

\* `Date.now() > enrollment.expiresAt`
Expired(enrollment) == now > enrollment.expiresAt

\* faulty variant: the expired entry is reported but left in the Map
DeleteExpired_Kept(token) == enrollmentTokens

\* what the handler does to the Map when it finds the entry expired
DeleteExpired(token) ==
    [t \in DOMAIN enrollmentTokens \ {token} |-> enrollmentTokens[t]]

\* the history of GETs handled strictly after the token's expiry instant
Recorded(token, status) ==
    IF token \in DOMAIN issued /\ now > issued[token].expiresAt
    THEN [gets EXCEPT ![token] = Append(@, status)]
    ELSE gets

GetEnrollment(token) ==
    /\ rev = "later"
    /\ token \in DOMAIN gets => Len(gets[token]) < MaxGets
    /\ IF token \notin DOMAIN enrollmentTokens
       THEN /\ resp' = Response("get-enrollment", 404, <<token>>, {}, {}, None)
            /\ gets' = Recorded(token, 404)
            /\ UNCHANGED enrollmentTokens
       ELSE IF Expired(enrollmentTokens[token])
       THEN /\ enrollmentTokens' = DeleteExpired(token)
            /\ resp' = Response("get-enrollment", 410, <<token>>, {}, {}, None)
            /\ gets' = Recorded(token, 410)
       ELSE /\ resp' = Response("get-enrollment", 200, <<token>>, {}, {},
                                enrollmentTokens[token].palmFeatures)
            /\ gets' = Recorded(token, 200)
            /\ UNCHANGED enrollmentTokens
    /\ UNCHANGED <<rev, now, timers, issued, shopVars, deviceVars, userVars>>

EmptyFn == [x \in {} |-> None]

InitEnrollment ==
    /\ rev = "later"
    /\ now = 0
    /\ enrollmentTokens = EmptyFn
    /\ timers = {}
    /\ issued = EmptyFn
    /\ gets = EmptyFn
    /\ products = <<>>
    /\ customers = <<>>
    /\ orders = <<>>
    /\ devices = <<>>
    /\ deviceAuthLogs = <<>>
    /\ users = {}
    /\ cards = {}
    /\ palmTemplates = {}
    /\ authenticationLogs = {}
    /\ polled = [p \in {"A", "B"} |-> NoRow]
    /\ resp = NoResponse

NextEnrollment ==
    \/ Tick
    \/ \E f \in PalmFeatures : GenerateEnrollmentQr(f)
    \/ \E tm \in timers : TimerFires(tm)
    \/ \E token \in TokenIds : GetEnrollment(token)

SpecEnrollment == InitEnrollment /\ [][NextEnrollment]_vars

(***************************************************************************)
(* Palm devices and bearer authentication                                  *)
(***************************************************************************)
MaxDevices  == 2     \* PalmDevice rows
MaxAuthLogs == 1     \* DeviceAuthenticationLog rows
NumApiTokens == 3    \* distinct values randomBytes(32) can draw in the model

\* symbols of header strings: a character, or a whole 64-character hex token
Ch(c) == [c |-> c, t |-> 0]
ApiTokens == {[c |-> "", t |-> i] : i \in 1 .. NumApiTokens}
DeviceNames == {"n1", "n2"}
Locations == {"l1"}

DeviceIds == 1 .. Len(devices)

\* prisma.palmDevice.findUnique({ where: { apiToken } }): the row id, or NoRow
FindDeviceByToken(apiToken) ==
    IF \E d \in DeviceIds : <<devices[d].apiToken>> = apiToken
    THEN CHOOSE d \in DeviceIds : <<devices[d].apiToken>> = apiToken
    ELSE NoRow

\* the unique index on PalmDevice.apiToken that findUnique relies on
ApiTokenTaken(apiToken) == \E d \in DeviceIds : devices[d].apiToken = apiToken

\* the apiToken fields of full PalmDevice rows put in a response body
SecretsOf(ds) == {devices[d].apiToken : d \in ds}

\* POST /api/palm/register; apiToken is what randomBytes(32) drew
RegisterDevice(name, location, apiToken) ==
    /\ Len(devices) < MaxDevices
    /\ IF ApiTokenTaken(apiToken)
       THEN /\ resp' = Response("register", 500, <<>>, {}, {}, None)
            /\ UNCHANGED devices
       ELSE /\ devices' = Append(devices, [name |-> name, location |-> location,
                                           apiToken |-> apiToken])
            /\ resp' = Response("register", 200, <<>>, {Len(devices) + 1},
                                {apiToken}, None)
    /\ UNCHANGED <<rev, now, enrollVars, shopVars, deviceAuthLogs, userVars>>

\* Prisma leaves a column alone when its value in `data` is undefined
Updated(old, new) == IF new = None THEN old ELSE new

\* PATCH /api/palm/devices/:id (later revision only)
PatchDevice(id, name, location) ==
    /\ rev = "later"
    /\ IF id \notin DeviceIds
       THEN /\ resp' = Response("patch-device", 500, <<id>>, {}, {}, None)
            /\ UNCHANGED devices
       ELSE /\ devices' = [devices EXCEPT
                              ![id].name = Updated(@, name),
                              ![id].location = Updated(@, location)]
            /\ resp' = Response("patch-device", 200, <<id>>, {id},
                                SecretsOf({id}), None)
    /\ UNCHANGED <<rev, now, enrollVars, shopVars, deviceAuthLogs, userVars>>

\* GET /api/palm/devices: select id, name, location, active, lastSeenAt,
\* createdAt
ListDevicesSelected ==
    /\ resp' = Response("list-devices", 200, <<>>, DeviceIds, {}, None)
    /\ UNCHANGED <<rev, now, enrollVars, shopVars, deviceVars, userVars>>

\* GET /api/palm-devices: findMany with no select, whole rows
ListPalmDevices ==
    /\ resp' = Response("list-palm-devices", 200, <<>>, DeviceIds,
                        SecretsOf(DeviceIds), None)
    /\ UNCHANGED <<rev, now, enrollVars, shopVars, deviceVars, userVars>>

\* Authorization headers: absent, or a string, here a sequence of characters
\* in which a token is one symbol
Chars(str) == [present |-> TRUE, value |-> str]
NoHeader == [present |-> FALSE, value |-> <<>>]
Bearer == <<Ch("B"), Ch("e"), Ch("a"), Ch("r"), Ch("e"), Ch("r")>>
BearerSp == Bearer \o <<Ch(" ")>>
Headers ==
    {NoHeader, Chars(<<>>), Chars(BearerSp)}
    \cup {Chars(BearerSp \o <<t>>) : t \in ApiTokens}
    \cup {Chars(Bearer \o <<t>>) : t \in ApiTokens}
    \cup {Chars(<<Ch("b")>> \o Tail(BearerSp) \o <<t>>) : t \in ApiTokens}
    \cup {Chars(<<Ch("B"), Ch("a"), Ch("s"), Ch("i"), Ch("c"), Ch(" ")>> \o <<t>>) :
              t \in ApiTokens}
    \cup {Chars(BearerSp \o <<t, Ch("x")>>) : t \in ApiTokens}

\* faulty variant: the scheme is compared without regard to its first letter
StartsWithBearer_AnyInitial(authHeader) ==
    /\ authHeader.present
    /\ Len(authHeader.value) >= Len(BearerSp)
    /\ SubSeq(authHeader.value, 2, Len(BearerSp)) = Tail(BearerSp)

\* authHeader?.startsWith('Bearer ')
StartsWithBearer(authHeader) ==
    /\ authHeader.present
    /\ Len(authHeader.value) >= Len(BearerSp)
    /\ SubSeq(authHeader.value, 1, Len(BearerSp)) = BearerSp

\* authHeader.substring(7)
Substring7(authHeader) ==
    SubSeq(authHeader.value, 8, Len(authHeader.value))

\* the bearer check of auth-log (and of next-order in the first revision):
\* the authenticated device id, or NoRow for a 401
BearerDevice(authHeader) ==
    IF ~StartsWithBearer(authHeader)
    THEN NoRow
    ELSE FindDeviceByToken(Substring7(authHeader))

\* JavaScript truthiness of an optional string
Truthy(x) == x # None /\ x # ""

\* `x || d`
OrDefault(x, d) == IF Truthy(x) THEN x ELSE d

AuthLogBodies ==
    {[deviceType |-> None, location |-> None, success |-> None, reason |-> None],
     [deviceType |-> "face", location |-> "l1", success |-> "true",
      reason |-> "matched"]}

\* faulty variant: the log row is attributed to the first device
LogDeviceId_First(device) == 1

\* the palmDeviceId written for the authenticated device
LogDeviceId(device) == device

\* POST /api/palm-devices/auth-log (later revision only)
AuthLog(authHeader, body) ==
    /\ rev = "later"
    /\ Len(deviceAuthLogs) < MaxAuthLogs
    /\ LET device == BearerDevice(authHeader)
       IN IF device = NoRow
          THEN /\ resp' = Response("auth-log", 401, authHeader.value, {}, {}, None)
               /\ UNCHANGED deviceAuthLogs
          ELSE /\ deviceAuthLogs' = Append(deviceAuthLogs,
                     [palmDeviceId |-> LogDeviceId(device),
                      deviceType |-> OrDefault(body.deviceType, "palm"),
                      location |-> OrDefault(body.location, "Unknown"),
                      success |-> OrDefault(body.success, "false"),
                      reason |-> OrDefault(body.reason, "Authentication failed"),
                      timestamp |-> now])
               /\ resp' = Response("auth-log", 200, authHeader.value,
                                   {Len(deviceAuthLogs) + 1}, {}, None)
    /\ UNCHANGED <<rev, now, enrollVars, shopVars, devices, userVars>>

\* GET /api/v1/palm/device-logs: each row flattened with its device's name
\* and location
DeviceLogs ==
    /\ rev = "later"
    /\ resp' = Response("device-logs", 200, <<>>, 1 .. Len(deviceAuthLogs), {},
                        None)
    /\ UNCHANGED <<rev, now, enrollVars, shopVars, deviceVars, userVars>>

InitDevices == InitEnrollment

NextDevices ==
    \/ \E t \in ApiTokens : RegisterDevice("n1", "l1", t)
    \/ \E id \in 1 .. MaxDevices, n \in DeviceNames \cup {None},
          l \in Locations \cup {None} : PatchDevice(id, n, l)
    \/ ListDevicesSelected
    \/ ListPalmDevices
    \/ \E h \in Headers, b \in AuthLogBodies : AuthLog(h, b)
    \/ DeviceLogs

SpecDevices == InitDevices /\ [][NextDevices]_vars

(***************************************************************************)
(* Catalog, customers and orders                                           *)
(***************************************************************************)
MaxProducts  == 2    \* Product rows
MaxCustomers == 1    \* Customer rows
MaxOrders    == 2    \* Order rows
MaxItems     == 2    \* line items of one order request
MaxPricedOrders == 1 \* Order rows where every line-item list is tried

ProductIds == 1 .. Len(products)
CustomerIds == 1 .. Len(customers)
OrderIds == 1 .. Len(orders)

\* Amounts are decimal numbers with one fractional digit, held in tenths.
NaN == [nan |-> TRUE, v |-> 0]
Num(v) == [nan |-> FALSE, v |-> v]
Plus(a, b) == IF a.nan \/ b.nan THEN NaN ELSE Num(a.v + b.v)
Times(a, q) == IF a.nan THEN NaN ELSE Num(a.v * q)

DigitVal ==
    [c \in {"0", "1", "2", "3", "4", "5", "6", "7", "8", "9"} |->
        CASE c = "0" -> 0 [] c = "1" -> 1 [] c = "2" -> 2 [] c = "3" -> 3
          [] c = "4" -> 4 [] c = "5" -> 5 [] c = "6" -> 6 [] c = "7" -> 7
          [] c = "8" -> 8 [] c = "9" -> 9]
IsDigit(c) == c \in DOMAIN DigitVal

\* how many digits the string starts with
RECURSIVE LeadingDigits(_)
LeadingDigits(str) ==
    IF str = <<>> \/ ~IsDigit(Head(str)) THEN 0 ELSE 1 + LeadingDigits(Tail(str))

\* the value of the first n characters read as a decimal integer
RECURSIVE IntValue(_, _)
IntValue(str, n) ==
    IF n = 0 THEN 0 ELSE 10 * IntValue(str, n - 1) + DigitVal[str[n]]

\* a price as a request carries it: a JSON number, or a JSON string
NumberPrice(v) == [isString |-> FALSE, num |-> v, chars |-> <<>>]
StringPrice(chars) == [isString |-> TRUE, num |-> 0, chars |-> chars]

\* parseFloat(item.price): the longest numeric prefix of the string, NaN when
\* there is none; a number is returned as it is
parseFloat(price) ==
    IF ~price.isString
    THEN Num(price.num)
    ELSE LET str == price.chars
             n == LeadingDigits(str)
             hasFraction == /\ Len(str) >= n + 2
                            /\ str[n + 1] = "."
                            /\ IsDigit(str[n + 2])
         IN IF n = 0 /\ ~hasFraction
            THEN NaN
            ELSE Num(10 * IntValue(str, n)
                     + IF hasFraction THEN DigitVal[str[n + 2]] ELSE 0)

\* faulty variant: the quantity is left out of the line amount
LineAmount_NoQuantity(item) == parseFloat(item.price)

\* items.reduce((sum, item) => sum + parseFloat(item.price) * item.quantity, 0)
LineAmount(item) == Times(parseFloat(item.price), item.quantity)

RECURSIVE Reduce(_, _)
Reduce(sum, items) ==
    IF items = <<>> THEN sum
    ELSE Reduce(Plus(sum, LineAmount(Head(items))), Tail(items))

TotalAmount(items) == Reduce(Num(0), items)

\* The store's decimal column takes a number, or a string that is a decimal
\* number from its first character to its last, and rejects anything else.
DecimalAccepts(price) ==
    \/ ~price.isString
    \/ LET str == price.chars
           n == LeadingDigits(str)
       IN /\ n >= 1
          /\ \/ Len(str) = n
             \/ /\ Len(str) = n + 2
                /\ str[n + 1] = "."
                /\ IsDigit(str[n + 2])

\* the decimal a stored price column holds
DecimalStored(price) ==
    IF ~price.isString
    THEN price.num
    ELSE LET str == price.chars
             n == LeadingDigits(str)
         IN 10 * IntValue(str, n)
            + IF Len(str) = n + 2 THEN DigitVal[str[n + 2]] ELSE 0

\* items.map(item => ({ productId, quantity, price })) as the rows stored
RECURSIVE ItemRows(_)
ItemRows(items) ==
    IF items = <<>> THEN <<>>
    ELSE <<[productId |-> Head(items).productId,
            quantity |-> Head(items).quantity,
            price |-> DecimalStored(Head(items).price)]>>
         \o ItemRows(Tail(items))

\* prisma.order.create rejects the nested write (nothing is stored) when a
\* foreign key names no row or a value does not fit its column
OrderCreateAccepts(customerId, items, totalAmount, palmDeviceId) ==
    /\ customerId = NoRow \/ customerId \in CustomerIds
    /\ palmDeviceId = NoRow \/ palmDeviceId \in DeviceIds
    /\ ~totalAmount.nan
    /\ \A i \in 1 .. Len(items) :
          /\ items[i].productId \in ProductIds
          /\ DecimalAccepts(items[i].price)

\* POST /api/products; `active` takes the column default
CreateProduct(name, price) ==
    /\ Len(products) < MaxProducts
    /\ products' = Append(products, [name |-> name, price |-> price,
                                     active |-> TRUE])
    /\ resp' = Response("create-product", 200, <<>>, {Len(products) + 1}, {},
                        None)
    /\ UNCHANGED <<rev, now, enrollVars, customers, orders, polled, deviceVars,
                   userVars>>

\* faulty variant: no filter on the active flag
ActiveFilter_All(p) == TRUE

\* where: { active: true }
ActiveFilter(p) == products[p].active

\* GET /api/products
ListProducts ==
    /\ resp' = Response("list-products", 200, <<>>,
                        {p \in ProductIds : ActiveFilter(p)}, {}, None)
    /\ UNCHANGED <<rev, now, enrollVars, shopVars, deviceVars, userVars>>

\* POST /api/customers
CreateCustomer(name) ==
    /\ Len(customers) < MaxCustomers
    /\ customers' = Append(customers, [name |-> name])
    /\ resp' = Response("create-customer", 200, <<>>, {Len(customers) + 1}, {},
                        None)
    /\ UNCHANGED <<rev, now, enrollVars, products, orders, polled, deviceVars,
                   userVars>>

\* the request body's items: absent, or an array
NoItems == [given |-> FALSE, list |-> <<>>]
Items(list) == [given |-> TRUE, list |-> list]

\* POST /api/orders
CreateOrder(customerId, customerName, items, palmDeviceId) ==
    /\ Len(orders) < MaxOrders
    /\ IF rev = "first" /\ palmDeviceId = NoRow
       THEN /\ resp' = Response("create-order", 400, <<>>, {}, {}, None)
            /\ UNCHANGED orders
       ELSE IF ~items.given
       THEN /\ resp' = Response("create-order", 500, <<>>, {}, {}, None)
            /\ UNCHANGED orders
       ELSE LET totalAmount == TotalAmount(items.list)
            IN IF ~OrderCreateAccepts(customerId, items.list, totalAmount,
                                      palmDeviceId)
               THEN /\ resp' = Response("create-order", 500, <<>>, {}, {}, None)
                    /\ UNCHANGED orders
               ELSE /\ orders' = Append(orders,
                          [customerId |-> customerId,
                           customerName |-> customerName,
                           status |-> "pending",
                           totalAmount |-> totalAmount.v,
                           palmDeviceId |-> palmDeviceId,
                           createdAt |-> now,
                           completedAt |-> <<>>,
                           items |-> ItemRows(items.list)])
                    /\ resp' = Response("create-order", 200, <<>>,
                                        {Len(orders) + 1},
                                        SecretsOf({palmDeviceId} \cap DeviceIds),
                                        None)
    /\ UNCHANGED <<rev, now, enrollVars, products, customers, polled,
                   deviceVars, userVars>>

\* GET /api/orders?status=
ListOrders(status) ==
    /\ resp' = Response("list-orders", 200, <<>>,
                        {o \in OrderIds : status = None \/ orders[o].status = status},
                        {}, None)
    /\ UNCHANGED <<rev, now, enrollVars, shopVars, deviceVars, userVars>>

\* findFirst({ where, orderBy: { createdAt: 'asc' } }): the candidates, one of
\* which is returned; rows with equal createdAt tie
\* faulty variant: findFirst without the orderBy, any matching row is first
Oldest_Any(candidates) == candidates

Oldest(candidates) ==
    {o \in candidates :
        \A other \in candidates : orders[o].createdAt <= orders[other].createdAt}

\* faulty variant: an order already handed to a poller is not handed out again
PendingFor_Unclaimed(device) ==
    {o \in 1 .. Len(orders) :
        /\ orders[o].status = "pending"
        /\ \A p \in DOMAIN polled : polled[p] # o}

\* where: { status: 'pending' } and, in the first revision, palmDeviceId
PendingFor(device) ==
    {o \in OrderIds :
        /\ orders[o].status = "pending"
        /\ rev = "first" => orders[o].palmDeviceId = device}

Pollers == {"A", "B"}

\* GET /api/palm/next-order, called by poller p
NextOrder(p, authHeader) ==
    LET device == IF rev = "first" THEN BearerDevice(authHeader) ELSE NoRow
    IN /\ IF rev = "first" /\ device = NoRow
          THEN /\ resp' = Response("next-order", 401, authHeader.value, {}, {},
                                   None)
               /\ UNCHANGED polled
          ELSE IF PendingFor(device) = {}
          THEN /\ resp' = Response("next-order", 200, authHeader.value, {}, {},
                                   None)
               /\ polled' = [polled EXCEPT ![p] = NoRow]
          ELSE \E order \in Oldest(PendingFor(device)) :
               /\ resp' = Response("next-order", 200, authHeader.value,
                                   {order}, {}, None)
               /\ polled' = [polled EXCEPT ![p] = order]
       /\ UNCHANGED <<rev, now, enrollVars, products, customers, orders,
                      deviceVars, userVars>>

\* the data of prisma.order.update in complete-order: the first revision
\* writes customerId and customerName, the later one only a truthy
\* customerName
\* faulty variant: the later revision still writes customerId as the first did
CompletedRow_WritesCustomer(order, status, customerId, customerName) ==
    [order EXCEPT !.status = Updated(@, status),
                  !.completedAt = <<now>>,
                  !.customerId = IF customerId = NoRow THEN @ ELSE customerId,
                  !.customerName = Updated(@, customerName)]

CompletedRow(order, status, customerId, customerName) ==
    IF rev = "first"
    THEN [order EXCEPT !.status = Updated(@, status),
                       !.completedAt = <<now>>,
                       !.customerId = IF customerId = NoRow THEN @ ELSE customerId,
                       !.customerName = Updated(@, customerName)]
    ELSE [order EXCEPT !.status = Updated(@, status),
                       !.completedAt = <<now>>,
                       !.customerName = IF Truthy(customerName)
                                        THEN customerName ELSE @]

\* req.params.id and the three body fields the first revision reads
CompleteRequest(id, status, customerId, customerName) ==
    <<id, status, customerId, customerName>>

\* POST /api/palm/complete-order/:id
CompleteOrder(id, status, customerId, customerName) ==
    /\ IF \/ id \notin OrderIds
          \/ (rev = "first" /\ customerId # NoRow /\ customerId \notin CustomerIds)
       THEN /\ resp' = Response("complete-order", 500,
                                 CompleteRequest(id, status, customerId,
                                                 customerName),
                                 {}, {}, None)
            /\ UNCHANGED orders
       ELSE /\ orders' = [orders EXCEPT
                             ![id] = CompletedRow(@, status, customerId,
                                                  customerName)]
            /\ resp' = Response("complete-order", 200,
                                 CompleteRequest(id, status, customerId,
                                                 customerName),
                                 {id}, {}, None)
    /\ UNCHANGED <<rev, now, enrollVars, products, customers, polled,
                   deviceVars, userVars>>

\* The store as the server finds it: rows written before this run, inactive
\* products among them, and one registered device.
InitialCatalogs ==
    {<<>>,
     <<[name |-> "cocoa", price |-> 20, active |-> FALSE]>>,
     <<[name |-> "apple", price |-> 35, active |-> TRUE],
       [name |-> "cocoa", price |-> 20, active |-> FALSE]>>}

InitialDevice ==
    [name |-> "n1", location |-> "l1",
     apiToken |-> CHOOSE t \in ApiTokens : t.t = 1]

InitShop ==
    /\ rev \in {"first", "later"}
    /\ now = 0
    /\ enrollmentTokens = EmptyFn
    /\ timers = {}
    /\ issued = EmptyFn
    /\ gets = EmptyFn
    /\ products \in InitialCatalogs
    /\ customers = <<>>
    /\ orders = <<>>
    /\ devices = <<InitialDevice>>
    /\ deviceAuthLogs = <<>>
    /\ users = {}
    /\ cards = {}
    /\ palmTemplates = {}
    /\ authenticationLogs = {}
    /\ polled = [p \in Pollers |-> NoRow]
    /\ resp = NoResponse

\* request values the order endpoints are exercised with
ItemInputs ==
    {[productId |-> 1, quantity |-> 2, price |-> StringPrice(<<"3", ".", "5">>)],
     [productId |-> 2, quantity |-> 1, price |-> NumberPrice(50)],
     [productId |-> 1, quantity |-> 1, price |-> StringPrice(<<"3", "x">>)],
     [productId |-> 1, quantity |-> 2, price |-> StringPrice(<<"x">>)]}

RECURSIVE SeqsUpTo(_, _)
SeqsUpTo(S, n) ==
    IF n = 0 THEN {<<>>}
    ELSE LET shorter == SeqsUpTo(S, n - 1)
         IN shorter \cup {Append(sq, x) : sq \in shorter, x \in S}

ItemLists == {NoItems} \cup {Items(l) : l \in SeqsUpTo(ItemInputs, MaxItems)}

\* Orders: the catalog and order creation under every line-item list
NextOrders ==
    \/ CreateProduct("bread", 50)
    \/ ListProducts
    \/ /\ Len(orders) < MaxPricedOrders
       /\ \E items \in ItemLists : CreateOrder(NoRow, "Ann", items, 1)
    \/ \E id \in 1 .. MaxOrders : CompleteOrder(id, "completed", NoRow, None)
    \/ ListOrders("pending")

SpecOrders == InitShop /\ [][NextOrders]_vars

\* Polling: callers poll for the next pending order and complete orders
PollHeaders ==
    {NoHeader} \cup {Chars(BearerSp \o <<t>>) : t \in ApiTokens}

NextPolling ==
    \/ \E d \in 0 .. 1 : CreateOrder(NoRow, "Ann", Items(<<>>), d)
    \/ \E p \in Pollers, h \in PollHeaders : NextOrder(p, h)
    \/ \E id \in 1 .. MaxOrders, st \in {"completed", "pending", None} :
          CompleteOrder(id, st, NoRow, None)

SpecPolling == InitShop /\ [][NextPolling]_vars

\* The first revision with two registered devices: orders are created for
\* either device as the clock advances, and each device polls with its own
\* token, with an unknown token or with no header.
InitialDevices ==
    <<InitialDevice,
      [name |-> "n2", location |-> "l2",
       apiToken |-> CHOOSE t \in ApiTokens : t.t = 2]>>

InitScoped ==
    /\ rev = "first"
    /\ now = 0
    /\ enrollmentTokens = EmptyFn
    /\ timers = {}
    /\ issued = EmptyFn
    /\ gets = EmptyFn
    /\ products = <<>>
    /\ customers = <<>>
    /\ orders = <<>>
    /\ devices = InitialDevices
    /\ deviceAuthLogs = <<>>
    /\ users = {}
    /\ cards = {}
    /\ palmTemplates = {}
    /\ authenticationLogs = {}
    /\ polled = [p \in Pollers |-> NoRow]
    /\ resp = NoResponse

NextScoped ==
    \/ Tick
    \/ \E d \in 0 .. Len(InitialDevices) : CreateOrder(NoRow, "Ann", Items(<<>>), d)
    \/ \E h \in PollHeaders : NextOrder("A", h)
    \/ \E id \in 1 .. MaxOrders : CompleteOrder(id, "completed", NoRow, None)

SpecScoped == InitScoped /\ [][NextScoped]_vars

\* Completion: priced orders with and without a customer are completed, and
\* completed again, under every combination of the body's status,
\* customerId and customerName
CompletionItems ==
    Items(<<[productId |-> 1, quantity |-> 2,
             price |-> StringPrice(<<"3", ".", "5">>)]>>)

CompletionNames == {None, "", "Bob"}

NextCompletion ==
    \/ CreateCustomer("Ann")
    \/ /\ Len(orders) < MaxPricedOrders
       /\ \E c \in 0 .. MaxCustomers : CreateOrder(c, "Ann", CompletionItems, 1)
    \/ \E id \in 1 .. MaxOrders, st \in {"completed", None},
          c \in 0 .. MaxCustomers, n \in CompletionNames :
          CompleteOrder(id, st, c, n)

SpecCompletion == InitShop /\ [][NextCompletion]_vars

(***************************************************************************)
(* Users and their dependent rows (later revision only)                    *)
(***************************************************************************)
MaxRows == 1         \* rows of each dependent table in the store at start

UserIds == {"u1", "u2"}
RequestUserIds == UserIds \cup {"u9"}

\* a dependent row: its table, its id and the user it references
Row(table, id, userId) == [table |-> table, id |-> id, userId |-> userId]

\* the contents a dependent table can have when every row references one of
\* the users `us`
RowSets(table, us) ==
    UNION {{{Row(table, i, f[i]) : i \in S} : f \in [S -> us]} :
              S \in SUBSET (1 .. MaxRows)}

\* The store as the server finds it: users, cards, palm templates and
\* authentication logs are written by other means; every dependent row
\* references an existing user.
InitUsers ==
    /\ rev = "later"
    /\ now = 0
    /\ enrollmentTokens = EmptyFn
    /\ timers = {}
    /\ issued = EmptyFn
    /\ gets = EmptyFn
    /\ products = <<>>
    /\ customers = <<>>
    /\ orders = <<>>
    /\ devices = <<>>
    /\ deviceAuthLogs = <<>>
    /\ users \in SUBSET UserIds
    /\ cards \in RowSets("card", users)
    /\ palmTemplates \in RowSets("palmTemplate", users)
    /\ authenticationLogs \in RowSets("authenticationLog", users)
    /\ polled = [p \in Pollers |-> NoRow]
    /\ resp = NoResponse

\* faulty variant: the dependent rows are not deleted
DeleteMany_Nothing(rows, userId) == rows

\* deleteMany({ where: { userId } }): what is left of the table
DeleteMany(rows, userId) == {r \in rows : r.userId # userId}

\* prisma.user.delete({ where: { id } }) throws when no such row exists, or
\* when a dependent row still references it
UserDeleteAccepts(userId, dependents) ==
    /\ userId \in users
    /\ \A r \in dependents : r.userId # userId

\* DELETE /api/v1/users/:userId
DeleteUser(userId) ==
    /\ rev = "later"
    /\ cards' = DeleteMany(cards, userId)
    /\ palmTemplates' = DeleteMany(palmTemplates, userId)
    /\ authenticationLogs' = DeleteMany(authenticationLogs, userId)
    /\ LET removed == (cards \ cards') \cup (palmTemplates \ palmTemplates')
                      \cup (authenticationLogs \ authenticationLogs')
       IN IF UserDeleteAccepts(userId, cards' \cup palmTemplates'
                                       \cup authenticationLogs')
          THEN /\ users' = users \ {userId}
               /\ resp' = Response("delete-user", 200, <<userId>>, removed, {},
                                   None)
          ELSE /\ UNCHANGED users
               /\ resp' = Response("delete-user", 500, <<userId>>, removed, {},
                                   None)
    /\ UNCHANGED <<rev, now, enrollVars, shopVars, deviceVars>>

\* GET /api/v1/users/:userId, with cards and palmTemplates included
GetUser(userId) ==
    /\ rev = "later"
    /\ IF userId \notin users
       THEN resp' = Response("get-user", 404, <<userId>>, {}, {}, None)
       ELSE resp' = Response("get-user", 200, <<userId>>,
                             {r \in cards \cup palmTemplates : r.userId = userId},
                             {}, None)
    /\ UNCHANGED <<rev, now, enrollVars, shopVars, deviceVars, userVars>>

\* GET /api/v1/users/:userId/cards
GetUserCards(userId) ==
    /\ rev = "later"
    /\ resp' = Response("get-user-cards", 200, <<userId>>,
                        {r \in cards : r.userId = userId}, {}, None)
    /\ UNCHANGED <<rev, now, enrollVars, shopVars, deviceVars, userVars>>

NextUsers ==
    \/ \E u \in RequestUserIds : DeleteUser(u)
    \/ \E u \in RequestUserIds : GetUser(u)
    \/ \E u \in RequestUserIds : GetUserCards(u)

SpecUsers == InitUsers /\ [][NextUsers]_vars

(***************************************************************************)
(* Claims about the enrollment tokens                                      *)
(***************************************************************************)

\* C1 (as stated): after a token's expiry instant has passed, its first GET
\* returns 410 and every later GET returns 404, whenever the deletion timer
\* runs.
C1_First410Then404 ==
    \A t \in DOMAIN gets :
        \A i \in 1 .. Len(gets[t]) :
            gets[t][i] = IF i = 1 THEN 410 ELSE 404

\* C1 (amended): after a token's expiry instant has passed no GET returns the
\* payload; a GET returns 410 when the entry is still in the map (neither the
\* timer nor an earlier GET has deleted it) and 404 otherwise; only the first
\* such GET can return 410, every later one returns 404, and after any such
\* GET the token is gone from the map.
C1_ExpiredStates ==
    \A t \in DOMAIN gets :
        /\ \A i \in 1 .. Len(gets[t]) : gets[t][i] \in {404, 410}
        /\ \A i \in 2 .. Len(gets[t]) : gets[t][i] = 404
        /\ gets[t] # <<>> => t \notin DOMAIN enrollmentTokens

C1_ExpiredSteps ==
    \A t \in DOMAIN gets :
        Len(gets'[t]) = Len(gets[t]) + 1 =>
            gets'[t][Len(gets'[t])] =
                IF t \in DOMAIN enrollmentTokens THEN 410 ELSE 404

C1_ExpiredGet410Or404 == []C1_ExpiredStates /\ [][C1_ExpiredSteps]_vars

\* C1 witness: a token read twice after its expiry, the first time before the
\* timer ran.
C1_Witness == \E t \in DOMAIN gets : gets[t] = <<410, 404>>

\* the other interleaving: the timer ran before the first read after expiry
C1_TimerFirst == \E t \in DOMAIN gets : gets[t] = <<404, 404>>

\* C2 (as stated): a GET handled strictly before expiresAt returns 200 with
\* the palmFeatures supplied at creation, and a GET handled at expiresAt does
\* not return that payload.
C2_PayloadUntilExpiryExclusive ==
    (resp.kind = "get-enrollment" /\ resp.arg[1] \in DOMAIN issued) =>
        LET e == issued[resp.arg[1]]
        IN /\ resp.at < e.expiresAt =>
                (resp.status = 200 /\ resp.payload = e.palmFeatures)
           /\ resp.at = e.expiresAt =>
                ~(resp.status = 200 /\ resp.payload = e.palmFeatures)

\* the half of C2 the code keeps: strictly before expiresAt the payload is
\* served
C2_PayloadBeforeExpiry ==
    (resp.kind = "get-enrollment" /\ resp.arg[1] \in DOMAIN issued) =>
        LET e == issued[resp.arg[1]]
        IN resp.at < e.expiresAt =>
                (resp.status = 200 /\ resp.payload = e.palmFeatures)

(***************************************************************************)
(* Claims about devices and bearer authentication                          *)
(***************************************************************************)

\* the header value "Bearer <apiToken of device d>"
BearerOf(d) == BearerSp \o <<devices[d].apiToken>>

\* C5: after any registrations and PATCHes no two PalmDevice rows share an
\* apiToken, and an auth-log request carrying a registered device's apiToken
\* as Bearer token gets 200 and writes a DeviceAuthenticationLog row whose
\* palmDeviceId is that device's id.
C5_TokenUniqueAndAccepted ==
    /\ \A d1, d2 \in DeviceIds :
          devices[d1].apiToken = devices[d2].apiToken => d1 = d2
    /\ \A d \in DeviceIds :
          (resp.kind = "auth-log" /\ resp.arg = BearerOf(d)) =>
              /\ resp.status = 200
              /\ resp.ids = {Len(deviceAuthLogs)}
              /\ deviceAuthLogs[Len(deviceAuthLogs)].palmDeviceId = d

\* C5 witness: two devices, the second patched, and its token just accepted
C5_Witness ==
    /\ Len(devices) = 2
    /\ devices[2].name # devices[1].name
    /\ resp.kind = "auth-log"
    /\ resp.arg = BearerOf(2)
    /\ resp.status = 200

\* the credential of a request matches no registered device
BadCredential(value) == \A d \in DeviceIds : value # BearerOf(d)

\* C6: an auth-log request whose Authorization header is missing, is not of
\* the Bearer scheme, or carries a token equal to no stored apiToken gets 401
\* and writes no DeviceAuthenticationLog row.
C6_BadBearerStep ==
    (resp'.kind = "auth-log" /\ BadCredential(resp'.arg)) =>
        (resp'.status = 401 /\ deviceAuthLogs' = deviceAuthLogs)

C6_BadBearerRejected == [][C6_BadBearerStep]_vars

\* C6 witness: a registered token presented under another scheme is refused
C6_Witness ==
    /\ resp.kind = "auth-log"
    /\ resp.status = 401
    /\ \E d \in DeviceIds :
          resp.arg = <<Ch("b")>> \o Tail(BearerSp) \o <<devices[d].apiToken>>

\* C7 (as stated): no response other than the registration response contains
\* a device's apiToken.
C7_TokenOnlyInRegistration ==
    resp.kind # "register" =>
        resp.secrets \cap {devices[d].apiToken : d \in DeviceIds} = {}

(***************************************************************************)
(* Claims about user deletion                                              *)
(***************************************************************************)

\* the dependent rows that reference user u after a step
RowsOfAfter(u) ==
    {r \in cards' \cup palmTemplates' \cup authenticationLogs' : r.userId = u}

\* C4: DELETE /api/v1/users/:userId of an existing user (whatever Cards,
\* PalmTemplates and AuthenticationLogs it has) returns success and leaves
\* neither the User row nor any row referencing it; of a user that does not
\* exist it returns an error response and leaves the store unchanged.
C4_DeleteStep ==
    \A u \in RequestUserIds :
        (resp'.kind = "delete-user" /\ resp'.arg = <<u>>) =>
            IF u \in users
            THEN /\ resp'.status = 200
                 /\ u \notin users'
                 /\ RowsOfAfter(u) = {}
            ELSE /\ resp'.status \notin {0, 200}
                 /\ UNCHANGED userVars

C4_DeleteUserCascades == [][C4_DeleteStep]_vars

\* C4 witness: a user that had a card, a palm template and an authentication
\* log was deleted with success while another user's rows are still there
C4_Witness ==
    /\ resp.kind = "delete-user"
    /\ resp.status = 200
    /\ {r.table : r \in resp.ids} = {"card", "palmTemplate", "authenticationLog"}
    /\ resp.arg[1] \notin users
    /\ users # {}

\* the other case of C4: deleting a user that does not exist fails
C4_MissingUser ==
    /\ resp.kind = "delete-user"
    /\ resp.status = 500
    /\ users # {}

(***************************************************************************)
(* Claims about the catalog and orders                                     *)
(***************************************************************************)

\* the sum of price x quantity over stored OrderItem rows
RECURSIVE SumOfRows(_)
SumOfRows(rows) ==
    IF rows = <<>> THEN 0
    ELSE Head(rows).price * Head(rows).quantity + SumOfRows(Tail(rows))

\* C3: every stored Order's totalAmount equals the sum over its OrderItems
\* of price x quantity, at creation and after any later operation: no step
\* changes the items or the totalAmount of a stored order.
C3_TotalIsSum ==
    \A o \in OrderIds : orders[o].totalAmount = SumOfRows(orders[o].items)

C3_Frozen ==
    \A o \in OrderIds :
        /\ o \in 1 .. Len(orders')
        /\ orders'[o].items = orders[o].items
        /\ orders'[o].totalAmount = orders[o].totalAmount

C3_TotalAmountIsItemSum == []C3_TotalIsSum /\ [][C3_Frozen]_vars

\* C3 witness: a completed order of two lines (2 x 3.5 + 1 x 5.0 = 12.0) one
\* of whose line prices differs from the product's catalog price
C3_Witness ==
    \E o \in OrderIds :
        /\ orders[o].status = "completed"
        /\ Len(orders[o].items) = 2
        /\ orders[o].totalAmount = 120
        /\ \E i \in 1 .. 2 :
              orders[o].items[i].price # products[orders[o].items[i].productId].price

\* C10: GET /api/products never returns a product whose active flag is
\* false.
C10_OnlyActiveListed ==
    resp.kind = "list-products" => \A p \in resp.ids : products[p].active

\* C10 witness: a listing that returned a product while the store also holds
\* an inactive one
C10_Witness ==
    /\ resp.kind = "list-products"
    /\ resp.ids # {}
    /\ \E p \in ProductIds : ~products[p].active

\* C8: in the later revision next-order hands out the pending order without
\* marking it: a call changes no order, and while exactly one order is
\* pending every call returns that order, whoever already holds it.
C8_PollStep ==
    (rev = "later" /\ resp'.kind = "next-order") =>
        /\ orders' = orders
        /\ resp'.status = 200
        /\ \A o \in OrderIds :
              {x \in OrderIds : orders[x].status = "pending"} = {o} =>
                  resp'.ids = {o}

C8_UnguardedNextOrder == [][C8_PollStep]_vars

\* C8 witness: both pollers hold the single pending order and nobody has
\* completed it
C8_Witness ==
    /\ rev = "later"
    /\ Len(orders) = 1
    /\ orders[1].status = "pending"
    /\ orders[1].completedAt = <<>>
    /\ polled["A"] = 1
    /\ polled["B"] = 1

\* C9 (as stated): an order whose status has become completed never returns
\* to pending (and so is never again served by next-order).
C9_CompletedStep ==
    \A o \in OrderIds :
        orders[o].status = "completed" => orders'[o].status # "pending"

C9_CompletedNeverPending == [][C9_CompletedStep]_vars

(***************************************************************************)
(* Claims about order creation, device-scoped polling and completion       *)
(***************************************************************************)

\* C11 (as stated): a POST /api/orders request whose items list is empty or
\* whose palmDeviceId is absent is rejected and persists nothing: no such
\* request is answered 200, and no stored Order is without items or without
\* a device.
C11_OrdersNeedItemsAndDevice ==
    /\ \A o \in OrderIds :
          /\ orders[o].items # <<>>
          /\ orders[o].palmDeviceId # NoRow
    /\ (resp.kind = "create-order" /\ resp.status = 200) =>
          \A o \in resp.ids :
              /\ orders[o].items # <<>>
              /\ orders[o].palmDeviceId # NoRow

\* the part of C11 the first revision keeps: without a palmDeviceId it
\* stores no order
C11_FirstRevisionNeedsDevice ==
    rev = "first" => \A o \in OrderIds : orders[o].palmDeviceId # NoRow

\* C12: in the first revision, GET /api/palm/next-order called with the token
\* of device D answers 200 with at most one order, which is pending, belongs
\* to D and has the oldest createdAt among D's pending orders, and with null
\* exactly when D has no pending order; with no header or a token of no
\* device it answers 401 and returns no order.
C12_PendingOf(d) ==
    {o \in OrderIds : orders[o].status = "pending" /\ orders[o].palmDeviceId = d}

C12_ScopedNextOrder ==
    (rev = "first" /\ resp.kind = "next-order") =>
        /\ \A d \in DeviceIds :
              resp.arg = BearerOf(d) =>
                  /\ resp.status = 200
                  /\ resp.ids \subseteq C12_PendingOf(d)
                  /\ Cardinality(resp.ids) <= 1
                  /\ resp.ids = {} <=> C12_PendingOf(d) = {}
                  /\ \A o \in resp.ids, other \in C12_PendingOf(d) :
                        orders[o].createdAt <= orders[other].createdAt
        /\ BadCredential(resp.arg) =>
              /\ resp.status = 401
              /\ resp.ids = {}

\* C12 witness: device D holds two pending orders created at different times
\* and its poll returned the older one
C12_Witness ==
    /\ rev = "first"
    /\ resp.kind = "next-order"
    /\ \E d \in DeviceIds, o \in OrderIds, later \in OrderIds :
          /\ resp.arg = BearerOf(d)
          /\ resp.ids = {o}
          /\ {o, later} \subseteq C12_PendingOf(d)
          /\ orders[o].createdAt < orders[later].createdAt

\* the other cases of C12: an older pending order of another device is
\* passed over, and a poll without a matching token is answered 401
C12_OtherDevicePassedOver ==
    /\ rev = "first"
    /\ resp.kind = "next-order"
    /\ \E d \in DeviceIds, o \in OrderIds, foreign \in OrderIds :
          /\ resp.arg = BearerOf(d)
          /\ resp.ids = {o}
          /\ orders[foreign].status = "pending"
          /\ orders[foreign].palmDeviceId \in DeviceIds \ {d}
          /\ orders[foreign].createdAt < orders[o].createdAt

C12_UnknownTokenRefused ==
    /\ rev = "first"
    /\ resp.kind = "next-order"
    /\ resp.status = 401
    /\ resp.arg # <<>>
    /\ \E o \in OrderIds : orders[o].status = "pending"

\* C13: in the later revision a POST /api/palm/complete-order/:id step leaves
\* the order's customerId as it was whatever customerId the body carries,
\* writes only status, completedAt and a supplied customerName, keeps the
\* customerName when the body has none, and never touches totalAmount,
\* palmDeviceId, createdAt, the order's items or any other order.
C13_CompleteStep ==
    (rev = "later" /\ resp'.kind = "complete-order" /\ now' = now) =>
        LET id           == resp'.arg[1]
            status       == resp'.arg[2]
            customerName == resp'.arg[4]
        IN /\ Len(orders') = Len(orders)
           /\ \A o \in OrderIds \ {id} : orders'[o] = orders[o]
           /\ resp'.status # 200 => orders' = orders
           /\ (resp'.status = 200 /\ id \in OrderIds) =>
                 /\ orders'[id].customerId = orders[id].customerId
                 /\ orders'[id].totalAmount = orders[id].totalAmount
                 /\ orders'[id].palmDeviceId = orders[id].palmDeviceId
                 /\ orders'[id].items = orders[id].items
                 /\ orders'[id].createdAt = orders[id].createdAt
                 /\ orders'[id].completedAt = <<now>>
                 /\ status # None => orders'[id].status = status
                 /\ status = None => orders'[id].status = orders[id].status
                 /\ customerName = None =>
                       orders'[id].customerName = orders[id].customerName
                 /\ orders'[id].customerName
                        \in {orders[id].customerName, customerName}

C13_CompletionKeepsCustomer == [][C13_CompleteStep]_vars

\* C13 witness: the later revision has completed an order that has no
\* customer with a body carrying an existing customer's id and a new name;
\* the order is completed under the new name and still has no customer
C13_Witness ==
    /\ rev = "later"
    /\ resp.kind = "complete-order"
    /\ resp.status = 200
    /\ resp.arg[3] \in CustomerIds
    /\ resp.arg[4] = "Bob"
    /\ \E o \in resp.ids :
          /\ orders[o].customerId = NoRow
          /\ orders[o].customerName = "Bob"
          /\ orders[o].status = "completed"
          /\ orders[o].completedAt = <<now>>
          /\ orders[o].items # <<>>

\* what C13 sets the later revision against: the first revision writes the
\* body's customerId into the order
C13_FirstRevisionWritesCustomer ==
    /\ rev = "first"
    /\ resp.kind = "complete-order"
    /\ resp.status = 200
    /\ resp.arg[3] \in CustomerIds
    /\ \E o \in resp.ids :
          /\ orders[o].customerId = resp.arg[3]

====
